---- MODULE Spec2Model ----
(***************************************************************************)
(* dot-jaeger: the Prometheus daemon (src/daemon.rs) and the trace         *)
(* primitives it walks (src/primitives.rs).                                *)
(*                                                                         *)
(* The daemon loop of PrometheusDaemon::start is modelled step by step     *)
(* (loop test, wait, clear, fetch, decode, one span of collect_candidates, *)
(* update_metrics); the Ctrl-C handler runs on its own thread and may      *)
(* interleave anywhere.  Option<T> is modelled as a sequence of length 0   *)
(* (None) or 1 (Some), Result<T, Error> as a record [k, v] with k one of   *)
(* "ok", "err", "panic" (a panic is not a Result in Rust; it is carried    *)
(* the same way so that callers can propagate it).                         *)
(*                                                                         *)
(* Spec is the daemon, started with the default switches, over responses   *)
(* built from a small corpus of traces, for several cycles.  SpecResolve   *)
(* is one Metrics::update of the first cycle, over every trace of a        *)
(* bounded family and every setting of the two switches.  SpecGraph is     *)
(* Graph::new and the two walks of src/graph.rs on one trace; SpecStage is *)
(* Stage::from_str and Display on one string; SpecScrape is the daemon of  *)
(* Spec with the metrics server of src/http.rs answering scrapes.          *)
(***************************************************************************)
EXTENDS Integers, Sequences, FiniteSets, TLC

VARIABLES
    daemon,                        \* cli::Daemon: [recurse_parents, recurse_children]
    running,                       \* the AtomicBool of PrometheusDaemon::start
    pc,                            \* position of the daemon thread in start()
    json,                          \* result of the last api.traces() call
    traces,                        \* Vec<TraceObject> decoded from json
    ti,                            \* index of the trace update() is iterating
    done,                          \* span ids of traces[ti] already collected
    candidates,                    \* Metrics.candidates: HashMap<Stage, Vec<Candidate>>
    parachain_total_candidates,    \* Gauge
    parachain_stage_gauges,        \* [Gauge; 8]
    parachain_stage_histograms,    \* [Histogram; 8], the sample count of each
    cycle,                         \* completed iterations of the loop
    resolved,                      \* history: outcome of the last span collected
    graph,                         \* result of Graph::new on traces[1]
    walk,                          \* result of the last Graph::parents / Graph::children
    parsed,                        \* a string, and the Stage parsed from it and printed
    server                         \* http::ServerInstance: last_buffer_length

vars == <<daemon, running, pc, json, traces, ti, done,
          candidates, parachain_total_candidates, parachain_stage_gauges,
          parachain_stage_histograms, cycle, resolved, graph, walk, parsed, server>>

(***************************************************************************)
(* Bounds of the model.                                                    *)
(***************************************************************************)
MaxSpans == 3
MaxChain == 12
MaxTraces == 2
MaxCycles == 2
MaxInput == 2

(***************************************************************************)
(* Option and Result.                                                      *)
(***************************************************************************)
None == <<>>
Some(x) == <<x>>
IsSome(o) == Len(o) = 1
IsNone(o) == Len(o) = 0
Unwrap(o) == o[1]

Ok(v) == [k |-> "ok", v |-> v]
Err == [k |-> "err", v |-> None]
Panic == [k |-> "panic", v |-> None]

(***************************************************************************)
(* Stage (daemon.rs): the enum is modelled by its discriminant.            *)
(***************************************************************************)
NoStage == 0
CandidateSelection == 1
CandidateBacking == 2
StatementDistribution == 3
PoVDistribution == 4
AvailabilityDistribution == 5
AvailabilityRecovery == 6
BitfieldDistribution == 7
Stage == NoStage..BitfieldDistribution

NumGauges == 8

\* the upper bounds, in milliseconds, of the buckets of every histogram
HISTOGRAM_BUCKETS ==
    <<250, 500, 750, 1000, 1250, 1500, 1750, 2000, 2250, 2500, 2750, 3000, 3250, 3500,
      3750, 4000, 4250, 4500, 4750, 5000, 5250, 5500, 5750, 6000, 6250, 6500, 6750, 7000,
      7250, 7500, 7750, 8000, 8250, 8500, 8750, 9000, 9250, 9500, 9750, 10000, 10250,
      10500, 10750, 11000, 11250, 11500, 11750, 12000, 12250, 12500, 12750, 13000,
      13250, 13500, 13750, 14000, 15250, 15500, 15750, 16000, 16250, 16500, 16750,
      17000, 17250, 17500, 17750, 18000, 18250, 18500, 18750, 19000, 19250, 19500,
      19750, 20000, 20250, 20500, 20750, 21000>>

\* Metrics::new: the bounds register_histogram! gives the histogram of
\* stage `s`: HISTOGRAM_BUCKETS.to_vec() for each of the eight
histogram_buckets(s) == HISTOGRAM_BUCKETS

HASH_IDENTIFIER == "candidate-hash"
STAGE_IDENTIFIER == "candidate-stage"
HashBytes == 32

(***************************************************************************)
(* Strings are sequences of one-character strings.                         *)
(***************************************************************************)
Rep(ch, n) == [i \in 1..n |-> ch]

DecDigits == <<"0", "1", "2", "3", "4", "5", "6", "7", "8", "9">>
HexLower == DecDigits \o <<"a", "b", "c", "d", "e", "f">>
HexUpper == DecDigits \o <<"A", "B", "C", "D", "E", "F">>

\* hex::val: the value of one hex digit, -1 for any other character
HexTable ==
    [ch \in {HexLower[i] : i \in 1..16} \cup {HexUpper[i] : i \in 1..16} |->
        IF \E i \in 1..16 : HexLower[i] = ch
        THEN (CHOOSE i \in 1..16 : HexLower[i] = ch) - 1
        ELSE (CHOOSE i \in 1..16 : HexUpper[i] = ch) - 1]

HexVal(ch) == IF ch \in DOMAIN HexTable THEN HexTable[ch] ELSE -1

\* hex::decode_to_slice(data, &mut [0u8; 32])
decode_to_slice(data) ==
    IF Len(data) % 2 # 0 THEN Err
    ELSE IF Len(data) \div 2 # HashBytes THEN Err
    ELSE IF \E i \in 1..Len(data) : HexVal(data[i]) < 0 THEN Err
    ELSE Ok([i \in 1..HashBytes |-> HexVal(data[2 * i - 1]) * 16 + HexVal(data[2 * i])])

IsDigit(ch) == \E i \in 1..10 : DecDigits[i] = ch
DigitVal(ch) == (CHOOSE i \in 1..10 : DecDigits[i] = ch) - 1

RECURSIVE DigitsValue(_)
DigitsValue(s) ==
    IF s = <<>> THEN 0
    ELSE DigitsValue(SubSeq(s, 1, Len(s) - 1)) * 10 + DigitVal(s[Len(s)])

I32Max == 2147483647

\* str::parse::<i32>: an optional sign, then one or more decimal digits
ParseInt(s) ==
    LET signed == s # <<>> /\ s[1] \in {"+", "-"}
        digits == IF signed THEN Tail(s) ELSE s
    IN  IF digits = <<>> \/ \E i \in 1..Len(digits) : ~IsDigit(digits[i]) THEN Err
        ELSE LET n == DigitsValue(digits)
                 over == IF signed /\ s[1] = "-" THEN n - 1 > I32Max ELSE n > I32Max
             IN  IF over THEN Err
                 ELSE Ok(IF signed /\ s[1] = "-" THEN 0 - n ELSE n)

\* a FromStr for Stage that takes one integer more
StageFromStr_upto8(s) ==
    LET n == ParseInt(s)
    IN  IF n.k = "err" THEN Err
        ELSE IF n.v \in NoStage..(BitfieldDistribution + 1) THEN Ok(n.v)
        ELSE Err

\* impl FromStr for Stage
StageFromStr(s) ==
    LET n == ParseInt(s)
    IN  IF n.k = "err" THEN Err
        ELSE IF n.v \in NoStage..BitfieldDistribution THEN Ok(n.v)
        ELSE Err

\* impl TryFrom<usize> for Stage
StageTryFrom(num) ==
    IF num \in NoStage..BitfieldDistribution THEN Ok(num) ELSE Err

\* the "{}" of a usize: its decimal digits
RECURSIVE ToDecimal(_)
ToDecimal(n) ==
    IF n < 10 THEN <<DecDigits[n + 1]>>
    ELSE ToDecimal(n \div 10) \o <<DecDigits[(n % 10) + 1]>>

\* impl Display for Stage: write!(f, "{}", *self as usize)
StageDisplay(stage) == ToDecimal(stage)

(***************************************************************************)
(* Span and TraceObject (primitives.rs).  A span is                        *)
(* [span_id, references, tags]; operation_name, start_time and duration    *)
(* are copied unchanged into a Candidate and are stood for by span_id.     *)
(* A trace is [spans |-> function from span_id to Span].                   *)
(***************************************************************************)
\* Span::get_tag
get_tag(span, key) ==
    LET found == SelectSeq(span.tags, LAMBDA t : t.key = key)
    IN  IF found = <<>> THEN None ELSE Some(found[1])

\* Span::parent_span_id
parent_span_id(span) ==
    LET child == SelectSeq(span.references, LAMBDA r : r.ref_type = "CHILD_OF")
    IN  IF child = <<>> THEN None ELSE Some(child[1].span_id)

\* TraceObject::find_child: the spans `find` may return (the HashMap's
\* iteration order decides which); empty when there is none
find_child(trace, id) ==
    {c \in DOMAIN trace.spans : parent_span_id(trace.spans[c]) = Some(id)}

\* TraceObject::get_parent
get_parent(trace, id) ==
    IF id \notin DOMAIN trace.spans THEN None
    ELSE LET p == parent_span_id(trace.spans[id])
         IN  IF IsNone(p) THEN None
             ELSE IF Unwrap(p) \in DOMAIN trace.spans THEN Some(Unwrap(p))
             ELSE None

\* extract_stage_from_span
extract_stage_from_span(item) ==
    LET stage == get_tag(item, STAGE_IDENTIFIER)
    IN  IF IsNone(stage) THEN Ok(None)
        ELSE LET r == StageFromStr(Unwrap(stage).value)
             IN  IF r.k = "err" THEN Err ELSE Ok(Some(r.v))

\* extract_hash_from_span
extract_hash_from_span(span) ==
    LET hash_string == get_tag(span, HASH_IDENTIFIER)
    IN  IF IsNone(hash_string) THEN Ok(None)
        ELSE LET s == Unwrap(hash_string).value
             IN  IF Len(s) < 2 THEN Panic
                 ELSE LET d == decode_to_slice(SubSeq(s, 3, Len(s)))
                      IN  IF d.k = "err" THEN Err
                          ELSE IF d.v = Rep(0, HashBytes) THEN Ok(None)
                          ELSE Ok(Some(d.v))

(***************************************************************************)
(* Candidate resolution (daemon.rs).  A Candidate is [hash, stage, span]:  *)
(* span is the id of the span whose operation_name, start_time and         *)
(* duration it carries.  The outcome of collecting one span is             *)
(* [kind, candidate, visited]: kind is "candidate" (one was inserted),     *)
(* "absent" (Ok, nothing inserted), "err" (an Err propagated by `?`) or    *)
(* "panic"; visited lists the spans the closure was called on.             *)
(***************************************************************************)
Candidate(hash, span, stage) == [hash |-> hash, stage |-> stage, span |-> span.span_id]

Outcome(kind, candidate, visited) ==
    [kind |-> kind, candidate |-> candidate, visited |-> visited]

\* the closure try_resolve_missing hands to recurse_children; st holds the
\* captured `stage` and `hash`.  r is "stop" for Ok(true), "continue" for
\* Ok(false), "err" for Err and "panic" for a panic inside the closure.
resolve_closure(st, c) ==
    LET visited == Append(st.visited, c.span_id)
        hash == IF IsSome(get_tag(c, HASH_IDENTIFIER)) /\ IsNone(st.hash)
                THEN extract_hash_from_span(c)
                ELSE Ok(st.hash)
    IN  IF hash.k # "ok"
        THEN [st |-> [st EXCEPT !.visited = visited], r |-> hash.k]
        ELSE LET stage == IF IsSome(get_tag(c, STAGE_IDENTIFIER)) /\ IsNone(st.stage)
                          THEN extract_stage_from_span(c)
                          ELSE Ok(st.stage)
             IN  IF stage.k # "ok"
                 THEN [st |-> [stage |-> st.stage, hash |-> hash.v, visited |-> visited],
                       r |-> "err"]
                 ELSE [st |-> [stage |-> stage.v, hash |-> hash.v, visited |-> visited],
                       r |-> IF IsSome(stage.v) /\ IsSome(hash.v) THEN "stop" ELSE "continue"]

\* TraceObject::recurse_children with the closure above: the set of final
\* [st, r] it may end in (one per choice find_child may make); r is "ok",
\* "err" or "panic"
RECURSIVE recurse_children(_, _, _)
recurse_children(trace, id, st) ==
    LET step(c) ==
            LET f == resolve_closure(st, trace.spans[c])
            IN  IF f.r = "continue" THEN recurse_children(trace, c, f.st)
                ELSE {[st |-> f.st, r |-> IF f.r = "stop" THEN "ok" ELSE f.r]}
    IN  IF find_child(trace, id) = {} THEN {[st |-> st, r |-> "ok"]}
        ELSE UNION {step(c) : c \in find_child(trace, id)}

\* Metrics::try_resolve_missing: the outcomes it may have.  The Result of
\* recurse_children is dropped; then hash.unwrap() and stage.unwrap().
try_resolve_missing(trace, span) ==
    LET stage == extract_stage_from_span(span)
        hash == extract_hash_from_span(span)
        finish(w) ==
            IF w.r = "panic" THEN Outcome("panic", None, w.st.visited)
            ELSE IF IsNone(w.st.hash) \/ IsNone(w.st.stage)
            THEN Outcome("panic", None, w.st.visited)
            ELSE Outcome("candidate",
                         Some(Candidate(Unwrap(w.st.hash), span, Unwrap(w.st.stage))),
                         w.st.visited)
    IN  IF stage.k # "ok" THEN {Outcome(stage.k, None, <<>>)}
        ELSE IF hash.k # "ok" THEN {Outcome(hash.k, None, <<>>)}
        ELSE {finish(w) : w \in recurse_children(trace, span.span_id,
                                    [stage |-> stage.v, hash |-> hash.v, visited |-> <<>>])}

\* impl TryFrom<&Span> for Option<Candidate>
try_from(span) ==
    LET hash == extract_hash_from_span(span)
    IN  IF hash.k # "ok" THEN hash
        ELSE LET stage == extract_stage_from_span(span)
             IN  IF stage.k # "ok" THEN stage
                 ELSE IF IsNone(hash.v) THEN Ok(None)
                 ELSE Ok(Some(Candidate(Unwrap(hash.v), span,
                                        IF IsSome(stage.v) THEN Unwrap(stage.v) ELSE NoStage)))

\* Metrics::insert, up to its call of insert_candidate
insert(span) ==
    LET c == try_from(span)
    IN  IF c.k # "ok" THEN Outcome(c.k, None, <<>>)
        ELSE IF IsSome(c.v) THEN Outcome("candidate", c.v, <<>>)
        ELSE Outcome("absent", None, <<>>)

\* collect_candidates without its last branch: every span goes through
\* try_resolve_missing
collect_candidates_always_resolve(trace, span) == try_resolve_missing(trace, span)

\* Metrics::collect_candidates, the body of its loop for one span
collect_candidates(trace, span) ==
    IF IsNone(get_tag(span, STAGE_IDENTIFIER)) /\ IsNone(get_tag(span, HASH_IDENTIFIER))
    THEN try_resolve_missing(trace, span)
    ELSE IF IsNone(get_tag(span, HASH_IDENTIFIER))
    THEN try_resolve_missing(trace, span)
    ELSE IF IsNone(get_tag(span, STAGE_IDENTIFIER))
    THEN try_resolve_missing(trace, span)
    ELSE {insert(span)}

\* an insert_candidate that files every candidate under NoStage
insert_candidate_nostage(cands, candidate) ==
    IF NoStage \in DOMAIN cands
    THEN [cands EXCEPT ![NoStage] = Append(@, candidate)]
    ELSE [s \in DOMAIN cands \cup {NoStage} |->
            IF s = NoStage THEN <<candidate>> ELSE cands[s]]

\* Metrics::insert_candidate
insert_candidate(cands, candidate) ==
    IF candidate.stage \in DOMAIN cands
    THEN [cands EXCEPT ![candidate.stage] = Append(@, candidate)]
    ELSE [s \in DOMAIN cands \cup {candidate.stage} |->
            IF s = candidate.stage THEN <<candidate>> ELSE cands[s]]

\* HashMap::new()
EmptyMap == [s \in {} |-> <<>>]

\* the count without unique_by
count_all(list) == Len(list)

\* itertools unique_by(|c| c.hash) ... len(), on a list of candidates
unique_by_hash(list) == Cardinality({list[i].hash : i \in 1..Len(list)})

\* the total as the sum of the per-stage counts
total_by_stage(cands) ==
    LET RECURSIVE Sum(_)
        Sum(S) == IF S = {} THEN 0
                  ELSE LET x == CHOOSE y \in S : TRUE
                       IN  Cardinality({cands[x][i].hash : i \in 1..Len(cands[x])}) + Sum(S \ {x})
    IN  Sum(DOMAIN cands)

\* self.candidates.values().flatten().unique_by(|c| c.hash) ... len()
total_unique(cands) ==
    Cardinality(UNION {{cands[s][i].hash : i \in 1..Len(cands[s])} : s \in DOMAIN cands})

\* one observe() per distinct hash of the stage
observe_unique(histograms, cands) ==
    [s \in 0..(NumGauges - 1) |->
        IF s \in DOMAIN cands
        THEN histograms[s] + Cardinality({cands[s][i].hash : i \in 1..Len(cands[s])})
        ELSE histograms[s]]

\* the first loop of update_metrics: one observe() per candidate of the stage
observe_all(histograms, cands) ==
    [s \in 0..(NumGauges - 1) |->
        IF s \in DOMAIN cands THEN histograms[s] + Len(cands[s]) ELSE histograms[s]]

\* the second loop of update_metrics: gauge.set(count) where the stage has a list
set_gauges(gauges, cands) ==
    [i \in 0..(NumGauges - 1) |->
        IF StageTryFrom(i).v \in DOMAIN cands
        THEN unique_by_hash(cands[StageTryFrom(i).v])
        ELSE gauges[i]]

(***************************************************************************)
(* Inputs: the bodies api.traces() may return.                             *)
(***************************************************************************)
Tag(key, value) == [key |-> key, value |-> value]
Reference(ref_type, span_id) == [ref_type |-> ref_type, span_id |-> span_id]

\* a span with id `id`, child of `parent` (0: no reference), with `tags`
Span(id, parent, tags) ==
    [span_id |-> id,
     references |-> IF parent = 0 THEN <<>> ELSE <<Reference("CHILD_OF", parent)>>,
     tags |-> tags]

\* deserialize_vec_as_hashmap: the spans keyed by span_id
TraceObject(parents, tags) ==
    [spans |-> [i \in 1..Len(parents) |-> Span(i, parents[i], tags[i])]]

HexA == <<"0", "x">> \o Rep("a", 2 * HashBytes)
HexB == <<"0", "x">> \o Rep("b", 2 * HashBytes)
HexZero == <<"0", "x">> \o Rep("0", 2 * HashBytes)

\* every span of the test data carries tags other than the two looked for
Library == Tag("otel.library.name", <<"m">>)
NoTags == <<Library>>
HashOnly(h) == <<Library, Tag(HASH_IDENTIFIER, h)>>
StageOnly(s) == <<Library, Tag(STAGE_IDENTIFIER, s)>>
Both(h, s) == <<Library, Tag(HASH_IDENTIFIER, h), Tag(STAGE_IDENTIFIER, s)>>

\* the traces a response of the daemon's upstream is built from
Corpus ==
    {   \* parent (stage 4) -> child-0 (hash) -> child-1 (no tags)
        TraceObject(<<0, 1, 2>>, <<StageOnly(<<"4">>), HashOnly(HexA), NoTags>>),
        \* two spans of one candidate at one stage, the same candidate at another
        TraceObject(<<0, 1, 1>>, <<Both(HexA, <<"4">>), Both(HexA, <<"4">>), Both(HexA, <<"7">>)>>),
        \* a parent that takes its stage from its child
        TraceObject(<<0, 1>>, <<HashOnly(HexB), Both(HexB, <<"0">>)>>),
        \* an all-zero hash
        TraceObject(<<0>>, <<Both(HexZero, <<"4">>)>>),
        \* a stage that does not exist
        TraceObject(<<0>>, <<Both(HexA, <<"8">>)>>)
    }

RECURSIVE SeqsUpTo(_, _)
SeqsUpTo(S, n) ==
    IF n = 0 THEN {<<>>}
    ELSE LET shorter == SeqsUpTo(S, n - 1)
         IN  shorter \cup {Append(q, x) : q \in shorter, x \in S}

NoJson == [kind |-> "none", traces |-> <<>>]
FetchError == [kind |-> "fetch_err", traces |-> <<>>]
Malformed == [kind |-> "malformed", traces |-> <<>>]
Body(ts) == [kind |-> "ok", traces |-> ts]

\* what a successful GET may return: a body serde cannot decode, or the
\* JSON of up to MaxTraces traces
Responses == {Malformed} \cup {Body(ts) : ts \in SeqsUpTo(Corpus, MaxTraces)}

NoResolved == [kind |-> "none", trace |-> [spans |-> <<>>], span |-> 0,
               candidate |-> None, visited |-> <<>>]

\* ServerInstance::new (requests_served and time only feed the log and are
\* left out)
ServerInstance == [last_buffer_length |-> 0]

\* no Graph built, no walk made, no string parsed
NoGraph == [k |-> "none", v |-> None]
NoWalk == [kind |-> "none", id |-> 0, items |-> None]
NoParsed == [input |-> <<>>, state |-> "none", result |-> Err, printed |-> <<>>]

(***************************************************************************)
(* The daemon: PrometheusDaemon::start and what it calls.                  *)
(***************************************************************************)
\* the switches of cli::Daemon default to off
Init ==
    /\ daemon = [recurse_parents |-> FALSE, recurse_children |-> FALSE]
    /\ running = TRUE
    /\ pc = "check"
    /\ json = NoJson
    /\ traces = <<>>
    /\ ti = 1
    /\ done = {}
    /\ candidates = EmptyMap
    /\ parachain_total_candidates = 0
    /\ parachain_stage_gauges = [i \in 0..(NumGauges - 1) |-> 0]
    /\ parachain_stage_histograms = [i \in 0..(NumGauges - 1) |-> 0]
    /\ cycle = 0
    /\ resolved = NoResolved
    /\ graph = NoGraph
    /\ walk = NoWalk
    /\ server = ServerInstance
    /\ parsed = NoParsed

metrics == <<parachain_total_candidates, parachain_stage_gauges, parachain_stage_histograms>>

daemonvars == <<daemon, running, pc, json, traces, ti, done, candidates, metrics, cycle, resolved>>

\* while running.load(Ordering::SeqCst)
LoopTest ==
    /\ pc = "check"
    /\ running => cycle < MaxCycles
    /\ pc' = IF running THEN "wait" ELSE "returned_ok"
    /\ UNCHANGED <<daemon, running, json, traces, ti, done, candidates, metrics, cycle, resolved, graph, walk, parsed, server>>

\* exporter.wait_duration(Duration::from_millis(1000))
WaitDuration ==
    /\ pc = "wait"
    /\ pc' = "clear"
    /\ UNCHANGED <<daemon, running, json, traces, ti, done, candidates, metrics, cycle, resolved, graph, walk, parsed, server>>

\* a clear that leaves the candidate lists as they are
ClearKeeps ==
    /\ pc = "clear"
    /\ pc' = "fetch"
    /\ UNCHANGED <<daemon, running, json, traces, ti, done, candidates, metrics, cycle, resolved, graph, walk, parsed, server>>

\* a clear that also zeroes the exported gauges
ClearResetsMetrics ==
    /\ pc = "clear"
    /\ candidates' = EmptyMap
    /\ parachain_total_candidates' = 0
    /\ parachain_stage_gauges' = [i \in 0..(NumGauges - 1) |-> 0]
    /\ pc' = "fetch"
    /\ UNCHANGED <<daemon, running, json, traces, ti, done, parachain_stage_histograms, cycle, resolved, graph, walk, parsed, server>>

\* Metrics::clear
Clear ==
    /\ pc = "clear"
    /\ candidates' = EmptyMap
    /\ pc' = "fetch"
    /\ UNCHANGED <<daemon, running, json, traces, ti, done, metrics, cycle, resolved, graph, walk, parsed, server>>

\* a failed fetch that goes round the loop again
FetchErrRetry ==
    /\ pc = "fetch"
    /\ json' = FetchError
    /\ pc' = "check"
    /\ UNCHANGED <<daemon, running, traces, ti, done, candidates, metrics, cycle, resolved, graph, walk, parsed, server>>

\* self.api.traces(self.app)? returning Err: start() returns the error
FetchErr ==
    /\ pc = "fetch"
    /\ json' = FetchError
    /\ pc' = "returned_err"
    /\ UNCHANGED <<daemon, running, traces, ti, done, candidates, metrics, cycle, resolved, graph, walk, parsed, server>>

\* self.api.traces(self.app)? returning Ok(json)
FetchOk ==
    /\ pc = "fetch"
    /\ json' \in Responses
    /\ pc' = "decode"
    /\ UNCHANGED <<daemon, running, traces, ti, done, candidates, metrics, cycle, resolved, graph, walk, parsed, server>>

\* collect_metrics: into_json fails; start() logs, clears `running`, breaks
DecodeErr ==
    /\ pc = "decode"
    /\ json.kind = "malformed"
    /\ running' = FALSE
    /\ pc' = "returned_ok"
    /\ UNCHANGED <<daemon, json, traces, ti, done, candidates, metrics, cycle, resolved, graph, walk, parsed, server>>

\* collect_metrics: into_json succeeds; Metrics::update starts on the traces
DecodeOk ==
    /\ pc = "decode"
    /\ json.kind = "ok"
    /\ traces' = json.traces
    /\ ti' = 1
    /\ done' = {}
    /\ pc' = IF json.traces = <<>> THEN "flush" ELSE "collect"
    /\ UNCHANGED <<daemon, running, json, candidates, metrics, cycle, resolved, graph, walk, parsed, server>>

\* one iteration of the loop of collect_candidates, on span `id` of
\* traces[ti], with outcome `out`; then the next span, the next trace, or
\* update_metrics.  An Err propagates to start(), which logs it, clears
\* `running` and breaks; a panic unwinds the daemon thread.
CollectOutcome(id, out) ==
    LET last == done \cup {id} = DOMAIN traces[ti].spans
    IN  /\ resolved' = [kind |-> out.kind, trace |-> traces[ti], span |-> id,
                        candidate |-> out.candidate, visited |-> out.visited]
        /\ candidates' = IF out.kind = "candidate"
                         THEN insert_candidate(candidates, Unwrap(out.candidate))
                         ELSE candidates
        /\ running' = IF out.kind = "err" THEN FALSE ELSE running
        /\ pc' = CASE out.kind = "err" -> "returned_ok"
                   [] out.kind = "panic" -> "panicked"
                   [] OTHER -> IF last /\ ti = Len(traces) THEN "flush" ELSE "collect"
        /\ IF out.kind \in {"err", "panic"} THEN UNCHANGED <<ti, done>>
           ELSE IF last THEN ti' = ti + 1 /\ done' = {}
           ELSE ti' = ti /\ done' = done \cup {id}
        /\ UNCHANGED <<daemon, json, traces, metrics, cycle, graph, walk, parsed, server>>

CollectSpan ==
    /\ pc = "collect"
    /\ \E id \in DOMAIN traces[ti].spans \ done :
         \E out \in collect_candidates(traces[ti], traces[ti].spans[id]) :
            CollectOutcome(id, out)

\* Metrics::update_metrics, then the end of update(), of collect_metrics
\* and of the loop body: traces and json are dropped
UpdateMetrics ==
    /\ pc = "flush"
    /\ parachain_stage_histograms' = observe_all(parachain_stage_histograms, candidates)
    /\ parachain_stage_gauges' = set_gauges(parachain_stage_gauges, candidates)
    /\ parachain_total_candidates' = total_unique(candidates)
    /\ traces' = <<>>
    /\ json' = NoJson
    /\ ti' = 1
    /\ done' = {}
    /\ resolved' = NoResolved
    /\ cycle' = cycle + 1
    /\ pc' = "check"
    /\ UNCHANGED <<daemon, running, candidates, graph, walk, parsed, server>>

\* the handler given to ctrlc::set_handler: r.store(false)
CtrlC ==
    /\ running
    /\ pc \notin {"returned_ok", "returned_err", "panicked"}
    /\ running' = FALSE
    /\ UNCHANGED <<daemon, pc, json, traces, ti, done, candidates, metrics, cycle, resolved, graph, walk, parsed, server>>

\* fn main() -> Result<(), Error>: the exit status of the process once
\* cli::app() has returned (Ok: 0, Err: 1) or the main thread has panicked
main ==
    CASE pc = "returned_ok" -> Some(0)
      [] pc = "returned_err" -> Some(1)
      [] pc = "panicked" -> Some(101)
      [] OTHER -> None

Next ==
    \/ LoopTest
    \/ WaitDuration
    \/ Clear
    \/ FetchErr
    \/ FetchOk
    \/ DecodeErr
    \/ DecodeOk
    \/ CollectSpan
    \/ UpdateMetrics
    \/ CtrlC

Spec == Init /\ [][Next]_vars

(***************************************************************************)
(* The daemon with Prometheus scraping it: the server thread of http.rs    *)
(* answers a GET /metrics at any point of the daemon's loop.               *)
(***************************************************************************)
\* prometheus::gather(): the values of the registered gauges and histograms
gather == [total |-> parachain_total_candidates,
           gauges |-> parachain_stage_gauges,
           histograms |-> parachain_stage_histograms]

\* TextEncoder::encode: one line per sample, its value in decimal (the
\* names, HELP and TYPE lines are the same in every buffer and left out)
encode(mf) ==
    <<ToDecimal(mf.total)>>
    \o [i \in 1..NumGauges |-> ToDecimal(mf.gauges[i - 1])]
    \o [i \in 1..NumGauges |-> ToDecimal(mf.histograms[i - 1])]

\* buffer.len()
RECURSIVE buffer_len(_)
buffer_len(buffer) ==
    IF buffer = <<>> THEN 0 ELSE Len(Head(buffer)) + 1 + buffer_len(Tail(buffer))

\* one iteration of request_handler for "/metrics": handle_metrics encodes
\* what gather() returns, keeps the length of the buffer and responds with
\* the buffer
Scrape ==
    /\ pc \notin {"returned_ok", "returned_err", "panicked"}
    /\ server' = [last_buffer_length |-> buffer_len(encode(gather))]
    /\ UNCHANGED <<daemonvars, graph, walk, parsed>>

NextScrape ==
    \/ Next
    \/ Scrape

SpecScrape == Init /\ [][NextScrape]_vars

(***************************************************************************)
(* One Metrics::update on one trace, for every trace of a bounded family   *)
(* and every setting of the two switches.                                  *)
(***************************************************************************)
\* the forests on spans 1..n in which a parent has a smaller id than its child
Shapes(n) == {p \in [1..n -> 0..(n - 1)] : \A i \in 1..n : p[i] < i}

TagChoices ==
    {NoTags, HashOnly(HexA), StageOnly(<<"4">>), Both(HexB, <<"7">>)}

\* a single-child chain of n spans: stage on the near end, hash on the far end
Chain(n) ==
    TraceObject([i \in 1..n |-> i - 1],
                [i \in 1..n |-> IF i = 1 THEN StageOnly(<<"4">>)
                                ELSE IF i = n THEN HashOnly(HexA)
                                ELSE NoTags])

\* a hash of two hex digits instead of 64
HexShort == <<"0", "x", "a", "b">>

\* traces with a tag whose value does not parse: a stage that is not an
\* integer, a hash of the wrong length
Unparsable ==
    {   TraceObject(<<0, 1>>, <<Both(HexA, <<"x">>), Both(HexB, <<"7">>)>>),
        TraceObject(<<0, 1>>, <<Both(HexShort, <<"4">>), Both(HexB, <<"7">>)>>)
    }

Family ==
    UNION {{TraceObject(p, t) : p \in Shapes(n), t \in [1..n -> TagChoices]} : n \in 1..MaxSpans}
    \cup {Chain(n) : n \in (MaxChain - 1)..MaxChain}
    \cup Corpus
    \cup Unparsable

InitResolve ==
    /\ daemon \in [recurse_parents : BOOLEAN, recurse_children : BOOLEAN]
    /\ running = TRUE
    /\ pc = "collect"
    /\ \E t \in Family : json = Body(<<t>>) /\ traces = <<t>>
    /\ ti = 1
    /\ done = {}
    /\ candidates = EmptyMap
    /\ parachain_total_candidates = 0
    /\ parachain_stage_gauges = [i \in 0..(NumGauges - 1) |-> 0]
    /\ parachain_stage_histograms = [i \in 0..(NumGauges - 1) |-> 0]
    /\ cycle = 0
    /\ resolved = NoResolved
    /\ graph = NoGraph
    /\ walk = NoWalk
    /\ server = ServerInstance
    /\ parsed = NoParsed

NextResolve ==
    \/ CollectSpan
    \/ UpdateMetrics

SpecResolve == InitResolve /\ [][NextResolve]_vars

(***************************************************************************)
(* Graph (graph.rs): a daggy Dag whose nodes are the spans of one trace.   *)
(* A Graph is [trace, nodes, edges, index_lookup]; an edge is the pair     *)
(* <<parent, child>>.  Graph::new is run on one trace of a bounded family  *)
(* in which a parent reference may name any span, the span itself or a     *)
(* span that is not there; the two walks are then run from any id.         *)
(***************************************************************************)
\* the span k parent references above `id`, None when the chain ends first
RECURSIVE parent_after(_, _, _)
parent_after(trace, id, k) ==
    IF k = 0 THEN Some(id)
    ELSE LET p == get_parent(trace, id)
         IN  IF IsNone(p) THEN None ELSE parent_after(trace, Unwrap(p), k - 1)

\* Dag::add_edge returns WouldCycle for the edge that closes a cycle (an
\* edge from a node to itself included)
would_cycle(trace) ==
    \E id \in DOMAIN trace.spans :
        \E k \in 1..Cardinality(DOMAIN trace.spans) : parent_after(trace, id, k) = Some(id)

\* Graph::new with the edges running from child to parent
graph_new_reversed(trace) ==
    LET ids == DOMAIN trace.spans
        with_parent == {id \in ids : IsSome(get_parent(trace, id))}
    IN  IF would_cycle(trace) THEN Err
        ELSE Ok([trace |-> trace,
                 nodes |-> ids,
                 edges |-> {<<id, Unwrap(get_parent(trace, id))>> : id \in with_parent},
                 index_lookup |-> ids])

\* Graph::new: a node per span, an edge parent -> child for every span
\* get_parent finds a parent for; the `?` on add_edge returns its error
graph_new(trace) ==
    LET ids == DOMAIN trace.spans
        with_parent == {id \in ids : IsSome(get_parent(trace, id))}
    IN  IF would_cycle(trace) THEN Err
        ELSE Ok([trace |-> trace,
                 nodes |-> ids,
                 edges |-> {<<Unwrap(get_parent(trace, id)), id>> : id \in with_parent},
                 index_lookup |-> ids])

\* Dag::children(idx) / Dag::parents(idx): the nodes one edge away
dag_children(g, id) == {e[2] : e \in {x \in g.edges : x[1] = id}}
dag_parents(g, id) == {e[1] : e \in {x \in g.edges : x[2] = id}}

\* Graph::parents: None for an unknown id, else the walker of Dag::parents
\* collected: the direct parents of the node
graph_parents(g, id) ==
    IF id \notin g.index_lookup THEN None
    ELSE LET ps == dag_parents(g, id)
         IN  Some(IF ps = {} THEN <<>> ELSE <<CHOOSE p \in ps : TRUE>>)

\* the closure given to recursive_walk: get(0) of the children of idx.  The
\* walker of Dag::children starts from the edge added last, and the edges
\* are added in the iteration order of a HashMap: any child may be first.
RECURSIVE recursive_walk(_, _)
recursive_walk(g, id) ==
    LET kids == dag_children(g, id)
    IN  IF kids = {} THEN {<<>>}
        ELSE UNION {{<<c>> \o w : w \in recursive_walk(g, c)} : c \in kids}

\* Graph::children that yields the first child and stops there
graph_children_direct(g, id) ==
    IF id \notin g.index_lookup THEN {None}
    ELSE LET kids == dag_children(g, id)
         IN  IF kids = {} THEN {Some(<<>>)} ELSE {Some(<<c>>) : c \in kids}

\* Graph::children: None for an unknown id, else what the iterator yields
\* (the set holds every outcome the iteration order allows)
graph_children(g, id) ==
    IF id \notin g.index_lookup THEN {None}
    ELSE {Some(w) : w \in recursive_walk(g, id)}

\* parent references of n spans: 0 for none, 1..n for a span of the trace
\* (the span itself included), n + 1 for a span that is not in the trace
GraphShapes(n) == [1..n -> 0..(n + 1)]

GraphFamily ==
    UNION {{TraceObject(p, [i \in 1..n |-> NoTags]) : p \in GraphShapes(n)} : n \in 1..MaxSpans}

InitGraph ==
    /\ daemon = [recurse_parents |-> FALSE, recurse_children |-> FALSE]
    /\ running = TRUE
    /\ pc = "check"
    /\ json = NoJson
    /\ traces \in {<<t>> : t \in GraphFamily}
    /\ ti = 1
    /\ done = {}
    /\ candidates = EmptyMap
    /\ parachain_total_candidates = 0
    /\ parachain_stage_gauges = [i \in 0..(NumGauges - 1) |-> 0]
    /\ parachain_stage_histograms = [i \in 0..(NumGauges - 1) |-> 0]
    /\ cycle = 0
    /\ resolved = NoResolved
    /\ graph = NoGraph
    /\ walk = NoWalk
    /\ server = ServerInstance
    /\ parsed = NoParsed

\* Graph::new(&trace)
GraphNew ==
    /\ graph = NoGraph
    /\ graph' = graph_new(traces[1])
    /\ UNCHANGED <<daemonvars, walk, parsed, server>>

\* graph.parents(id), the iterator run to its end
GraphParents ==
    /\ graph.k = "ok"
    /\ \E id \in 1..(Len(traces[1].spans) + 1) :
          walk' = [kind |-> "parents", id |-> id, items |-> graph_parents(graph.v, id)]
    /\ UNCHANGED <<daemonvars, graph, parsed, server>>

\* graph.children(id), the iterator run to its end
GraphChildren ==
    /\ graph.k = "ok"
    /\ \E id \in 1..(Len(traces[1].spans) + 1) :
          \E w \in graph_children(graph.v, id) :
              walk' = [kind |-> "children", id |-> id, items |-> w]
    /\ UNCHANGED <<daemonvars, graph, parsed, server>>

NextGraph ==
    \/ GraphNew
    \/ GraphParents
    \/ GraphChildren

SpecGraph == InitGraph /\ [][NextGraph]_vars

(***************************************************************************)
(* Stage::from_str and Display on their own: a string of up to MaxInput    *)
(* characters is parsed and, when it parses, the Stage is printed.         *)
(***************************************************************************)
StageAlphabet == {DecDigits[i] : i \in 1..Len(DecDigits)} \cup {"+", "-", "x"}

StageInputs == SeqsUpTo(StageAlphabet, MaxInput)

InitStage ==
    /\ daemon = [recurse_parents |-> FALSE, recurse_children |-> FALSE]
    /\ running = TRUE
    /\ pc = "check"
    /\ json = NoJson
    /\ traces = <<>>
    /\ ti = 1
    /\ done = {}
    /\ candidates = EmptyMap
    /\ parachain_total_candidates = 0
    /\ parachain_stage_gauges = [i \in 0..(NumGauges - 1) |-> 0]
    /\ parachain_stage_histograms = [i \in 0..(NumGauges - 1) |-> 0]
    /\ cycle = 0
    /\ resolved = NoResolved
    /\ graph = NoGraph
    /\ walk = NoWalk
    /\ server = ServerInstance
    /\ parsed \in {[input |-> s, state |-> "new", result |-> Err, printed |-> <<>>] : s \in StageInputs}

\* s.parse::<Stage>(), then format!("{}", stage) of the Stage obtained
StageParse ==
    /\ parsed.state = "new"
    /\ LET r == StageFromStr(parsed.input)
       IN  parsed' = [input |-> parsed.input, state |-> "done", result |-> r,
                      printed |-> IF r.k = "ok" THEN StageDisplay(r.v) ELSE <<>>]
    /\ UNCHANGED <<daemonvars, graph, walk, server>>

NextStage == StageParse

SpecStage == InitStage /\ [][NextStage]_vars

(***************************************************************************)
(* Vocabulary of the properties.                                           *)
(***************************************************************************)
\* the step bound the specification gives the fallback walks
MAX_RECURSION_DEPTH == 10

RECURSIVE Descendants(_, _)
Descendants(trace, id) ==
    LET kids == {c \in DOMAIN trace.spans : parent_span_id(trace.spans[c]) = Some(id)}
    IN  kids \cup UNION {Descendants(trace, c) : c \in kids}

\* the ancestors of a span, nearest first
RECURSIVE Ancestors(_, _)
Ancestors(trace, id) ==
    LET p == parent_span_id(trace.spans[id])
    IN  IF IsNone(p) \/ Unwrap(p) \notin DOMAIN trace.spans THEN <<>>
        ELSE <<Unwrap(p)>> \o Ancestors(trace, Unwrap(p))

Range(q) == {q[i] : i \in 1..Len(q)}

\* the span carries a tag `key` with a usable value
Carries(span, key) ==
    IF key = HASH_IDENTIFIER
    THEN LET h == extract_hash_from_span(span) IN h.k = "ok" /\ IsSome(h.v)
    ELSE LET g == extract_stage_from_span(span) IN g.k = "ok" /\ IsSome(g.v)

TagValueOf(span, key) ==
    IF key = HASH_IDENTIFIER THEN Unwrap(extract_hash_from_span(span).v)
    ELSE Unwrap(extract_stage_from_span(span).v)

\* the first ancestor carrying `key`
NearestAncestor(trace, id, key) ==
    LET with == SelectSeq(Ancestors(trace, id), LAMBDA a : Carries(trace.spans[a], key))
    IN  with[1]

\* `key` is carried neither by the span nor by a descendant, but by an ancestor
NeedsAncestor(trace, id, key) ==
    /\ ~Carries(trace.spans[id], key)
    /\ \A d \in Descendants(trace, id) : ~Carries(trace.spans[d], key)
    /\ \E a \in Range(Ancestors(trace, id)) : Carries(trace.spans[a], key)

\* `key` is carried by the span, a descendant or an ancestor
Reachable(trace, id, key) ==
    \E x \in {id} \cup Descendants(trace, id) \cup Range(Ancestors(trace, id)) :
        Carries(trace.spans[x], key)

BothSwitches == daemon.recurse_parents /\ daemon.recurse_children

Collected == resolved.kind # "none"
ResolvedSpan == resolved.trace.spans[resolved.span]

DistinctHashes(list) == {list[i].hash : i \in 1..Len(list)}
Ingested(s) == IF s \in DOMAIN candidates THEN Len(candidates[s]) ELSE 0

\* update_metrics has run and Metrics::clear has not run since
AfterFlush == pc \in {"check", "wait", "clear"} /\ cycle >= 1

\* start() has returned
Stopped == pc \in {"returned_ok", "returned_err"}

(***************************************************************************)
(* Properties.                                                             *)
(***************************************************************************)
\* C1: with both fallbacks enabled, a span that lacks a field (hash or
\* stage) which no descendant carries but an ancestor does resolves to a
\* Candidate whose field is that of the nearest such ancestor.
C1_AncestorFallback ==
    (Collected /\ BothSwitches) =>
        \A key \in {HASH_IDENTIFIER, STAGE_IDENTIFIER} :
            ( /\ NeedsAncestor(resolved.trace, resolved.span, key)
              /\ Reachable(resolved.trace, resolved.span, HASH_IDENTIFIER)
              /\ Reachable(resolved.trace, resolved.span, STAGE_IDENTIFIER) )
            => /\ resolved.kind = "candidate"
               /\ LET a == NearestAncestor(resolved.trace, resolved.span, key)
                      c == Unwrap(resolved.candidate)
                  IN  TagValueOf(resolved.trace.spans[a], key)
                        = IF key = HASH_IDENTIFIER THEN c.hash ELSE c.stage

\* C2: a span for which no hash is found, on itself or by a walk, yields no
\* candidate, without an error or a crash, and the cycle goes on.
C2_NoHashAbsent ==
    (Collected /\ ~Reachable(resolved.trace, resolved.span, HASH_IDENTIFIER)) =>
        /\ resolved.kind = "absent"
        /\ pc \in {"collect", "flush"}

\* C3: a span whose hash is resolved but for which no stage is found, on
\* itself or by a walk, yields a Candidate with stage NoStage, held in the
\* NoStage list.
C3_NoStageDefault ==
    ( /\ Collected
      /\ Carries(ResolvedSpan, HASH_IDENTIFIER)
      /\ ~Reachable(resolved.trace, resolved.span, STAGE_IDENTIFIER) ) =>
        /\ resolved.kind = "candidate"
        /\ Unwrap(resolved.candidate).stage = NoStage
        /\ NoStage \in DOMAIN candidates
        /\ Unwrap(resolved.candidate) \in Range(candidates[NoStage])

\* C4: a fallback walk visits at most MAX_RECURSION_DEPTH spans; on a
\* single-child chain deeper than that whose only hash is on the far end,
\* the near end resolves to absent.
C4_WalkBound ==
    Collected =>
        /\ Len(resolved.visited) <= MAX_RECURSION_DEPTH
        /\ \A n \in (MAX_RECURSION_DEPTH + 2)..MaxChain :
              (resolved.trace = Chain(n) /\ resolved.span = 1) => resolved.kind = "absent"

\* C5: a span carrying both a hash tag and a stage tag is collected without
\* visiting any other span, and the outcome is the one its own two tags
\* give, whatever the switches and the rest of the trace.
C5_FastPath ==
    ( /\ Collected
      /\ IsSome(get_tag(ResolvedSpan, HASH_IDENTIFIER))
      /\ IsSome(get_tag(ResolvedSpan, STAGE_IDENTIFIER)) ) =>
        LET h == extract_hash_from_span(ResolvedSpan)
            g == extract_stage_from_span(ResolvedSpan)
        IN  /\ resolved.visited = <<>>
            /\ IF h.k = "ok" /\ g.k = "ok" /\ IsSome(h.v)
               THEN /\ resolved.kind = "candidate"
                    /\ resolved.candidate =
                          Some([hash |-> Unwrap(h.v), stage |-> Unwrap(g.v), span |-> resolved.span])
               ELSE /\ resolved.kind # "candidate"
                    /\ resolved.candidate = None

\* a span with both tags, a parent and a child, collected with both switches on
C5_Witness ==
    /\ Collected
    /\ BothSwitches
    /\ resolved.kind = "candidate"
    /\ IsSome(get_tag(ResolvedSpan, HASH_IDENTIFIER))
    /\ IsSome(get_tag(ResolvedSpan, STAGE_IDENTIFIER))
    /\ Ancestors(resolved.trace, resolved.span) # <<>>
    /\ \E d \in Descendants(resolved.trace, resolved.span) :
          Carries(resolved.trace.spans[d], HASH_IDENTIFIER)

\* C6: after update_metrics, the gauge of every stage that received a
\* candidate in the cycle is the number of distinct hashes in that stage's
\* list.
C6_StageGaugeUnique ==
    AfterFlush =>
        \A s \in DOMAIN candidates :
            parachain_stage_gauges[s] = Cardinality(DistinctHashes(candidates[s]))

\* two candidates of one hash in one stage, counted once
C6_Witness ==
    /\ AfterFlush
    /\ \E s \in DOMAIN candidates :
          /\ Len(candidates[s]) = 2
          /\ candidates[s][1].hash = candidates[s][2].hash
          /\ parachain_stage_gauges[s] = 1

\* C7: after a cycle that ingested nothing, every per-stage gauge and the
\* total gauge are 0.
C7_ResetZeroes ==
    (AfterFlush /\ candidates = EmptyMap) =>
        /\ parachain_total_candidates = 0
        /\ \A i \in 0..(NumGauges - 1) : parachain_stage_gauges[i] = 0

\* C8: after update_metrics, the total gauge is the number of distinct
\* hashes over all the lists, hence at most the sum of the per-stage counts.
RECURSIVE SumDistinct(_)
SumDistinct(S) ==
    IF S = {} THEN 0
    ELSE LET s == CHOOSE x \in S : TRUE
         IN  Cardinality(DistinctHashes(candidates[s])) + SumDistinct(S \ {s})

C8_TotalUnique ==
    AfterFlush =>
        /\ parachain_total_candidates
             = Cardinality(UNION {DistinctHashes(candidates[s]) : s \in DOMAIN candidates})
        /\ parachain_total_candidates <= SumDistinct(DOMAIN candidates)

\* one hash held under two stages, counted once in the total
C8_Witness ==
    /\ AfterFlush
    /\ \E s, t \in DOMAIN candidates :
          /\ s # t
          /\ DistinctHashes(candidates[s]) \cap DistinctHashes(candidates[t]) # {}
    /\ parachain_total_candidates < SumDistinct(DOMAIN candidates)

\* C9: after update_metrics of any cycle the sample count of each stage's
\* histogram is the number of candidates ingested for the stage in that
\* cycle, repeated hashes included, samples of earlier cycles excluded.
C9_HistogramPerCycle ==
    AfterFlush =>
        \A s \in Stage : parachain_stage_histograms[s] = Ingested(s)

\* what update_metrics does to the histograms: it adds to each stage's
\* sample count the number of candidates ingested for the stage in the
\* cycle, repeated hashes included; no other step changes a histogram.
HistogramCumulative ==
    [][ IF pc = "flush" /\ pc' # "flush"
        THEN \A s \in Stage :
                parachain_stage_histograms'[s] = parachain_stage_histograms[s] + Ingested(s)
        ELSE parachain_stage_histograms' = parachain_stage_histograms ]_vars

\* a second cycle has added its repeated hashes to the samples of the first
HistogramCumulativeWitness ==
    /\ AfterFlush
    /\ cycle >= 2
    /\ \E s \in DOMAIN candidates :
          /\ Cardinality(DistinctHashes(candidates[s])) < Len(candidates[s])
          /\ parachain_stage_histograms[s] > Len(candidates[s])

\* C10: a failed fetch or a failed decode makes start() return, and once
\* it has returned nothing runs: no cycle, no fetch.
C10_FailureStops ==
    [][ /\ (pc = "fetch" /\ json'.kind = "fetch_err") => Stopped'
        /\ (pc = "decode" /\ json.kind = "malformed" /\ pc' # pc) => Stopped'
        /\ Stopped => UNCHANGED <<pc, json, traces, candidates, metrics, cycle>> ]_vars

\* the daemon stopped by a fetch that failed after a cycle had completed
C10_Witness ==
    /\ pc = "returned_err"
    /\ json.kind = "fetch_err"
    /\ cycle >= 1

\* C11: when the daemon has stopped the exit status is non-zero if a failed
\* fetch or a failed decode stopped it, and zero if a cancellation did.
C11_ExitStatus ==
    Stopped =>
        /\ json.kind \in {"fetch_err", "malformed"} => Unwrap(main) # 0
        /\ json.kind = "none" => Unwrap(main) = 0

\* the span has a stage tag that is not an integer, or a hash tag that is
\* not the hex of a hash
UnparsableTag(span) ==
    \/ /\ IsSome(get_tag(span, STAGE_IDENTIFIER))
       /\ ParseInt(Unwrap(get_tag(span, STAGE_IDENTIFIER)).value).k = "err"
    \/ /\ IsSome(get_tag(span, HASH_IDENTIFIER))
       /\ extract_hash_from_span(span).k # "ok"

\* C12: a span with a stage or hash tag that does not parse is collected
\* as if the tag were absent: no error, the cycle goes on to the other
\* spans and to update_metrics, and the daemon keeps running.
C12_UnparsableAsAbsent ==
    (Collected /\ UnparsableTag(ResolvedSpan)) =>
        /\ resolved.kind \in {"candidate", "absent"}
        /\ pc \in {"collect", "flush"}
        /\ running

\* some span of the trace names as its parent a span that is not in the trace
Dangling(trace) ==
    \E id \in DOMAIN trace.spans :
        LET p == parent_span_id(trace.spans[id])
        IN  IsSome(p) /\ Unwrap(p) \notin DOMAIN trace.spans

\* C13: Graph::new fails exactly when some span's parent reference names a
\* span that is not in the trace.
C13_GraphFailsOnDangling ==
    graph # NoGraph => (graph.k = "err" <=> Dangling(traces[1]))

\* C15: for a trace of N spans, R of them without a parent reference, and
\* no parent reference to a span outside the trace, the Graph built has N
\* nodes and N - R edges, and every span with a parent reference has
\* exactly one incoming edge, which comes from its parent.
C15_GraphShape ==
    (graph.k = "ok" /\ ~Dangling(traces[1])) =>
        LET spans == traces[1].spans
            roots == {id \in DOMAIN spans : IsNone(parent_span_id(spans[id]))}
        IN  /\ Cardinality(graph.v.nodes) = Len(spans)
            /\ Cardinality(graph.v.edges) = Len(spans) - Cardinality(roots)
            /\ \A c \in DOMAIN spans \ roots :
                  {e \in graph.v.edges : e[2] = c} = {<<Unwrap(parent_span_id(spans[c])), c>>}
            /\ \A r \in roots : {e \in graph.v.edges : e[2] = r} = {}

\* a Graph built from three spans, two of them children of the third
C15_Witness ==
    /\ graph.k = "ok"
    /\ ~Dangling(traces[1])
    /\ Len(traces[1].spans) = 3
    /\ Cardinality(graph.v.edges) = 2
    /\ \E a \in graph.v.nodes : Cardinality({e \in graph.v.edges : e[1] = a}) = 2

\* C16: Graph::parents yields the ancestors of the span, nearest first, up
\* to the root, in at most N steps and without repeating a span.
C16_ParentChain ==
    (walk.kind = "parents" /\ IsSome(walk.items)) =>
        LET w == Unwrap(walk.items)
        IN  /\ w = Ancestors(traces[1], walk.id)
            /\ Len(w) <= Len(traces[1].spans)
            /\ Cardinality(Range(w)) = Len(w)

\* C17: Graph::children yields every proper descendant of the span exactly
\* once, a span after its parent, those reached through a second or later
\* child included.
C17_AllDescendants ==
    (walk.kind = "children" /\ IsSome(walk.items)) =>
        LET w == Unwrap(walk.items)
        IN  /\ Range(w) = Descendants(traces[1], walk.id)
            /\ Cardinality(Range(w)) = Len(w)
            /\ \A i \in 1..Len(w) :
                  LET p == Unwrap(parent_span_id(traces[1].spans[w[i]]))
                  IN  p = walk.id \/ \E j \in 1..(i - 1) : w[j] = p

\* C17 as the code has it: Graph::children is None exactly for an id that
\* is not in the trace; otherwise it yields one path of the trace downward
\* from the span: a child of the span, then a child of that child, and so
\* on until a span without children, each span once.
C17_FirstChildPath ==
    walk.kind = "children" =>
        LET spans == traces[1].spans
        IN  /\ IsNone(walk.items) <=> walk.id \notin DOMAIN spans
            /\ IsSome(walk.items) =>
                  LET w == Unwrap(walk.items)
                      end == IF w = <<>> THEN walk.id ELSE w[Len(w)]
                  IN  /\ \A i \in 1..Len(w) :
                            parent_span_id(spans[w[i]])
                                = Some(IF i = 1 THEN walk.id ELSE w[i - 1])
                      /\ \A c \in DOMAIN spans : parent_span_id(spans[c]) # Some(end)
                      /\ Cardinality(Range(w)) = Len(w)
                      /\ Range(w) \subseteq Descendants(traces[1], walk.id)

\* a walk from a span with two children: one is yielded, the other is not
C17_Witness ==
    /\ walk.kind = "children"
    /\ IsSome(walk.items)
    /\ Len(Unwrap(walk.items)) = 1
    /\ Cardinality(Descendants(traces[1], walk.id)) = 2

\* C14: Stage parsing accepts exactly the integers 0 through 8, each giving
\* the stage of that number (8: ApprovalChecking), and fails on anything
\* else; printing the parsed Stage gives the same integer back.
C14_StageParse0to8 ==
    parsed.state = "done" =>
        LET n == ParseInt(parsed.input)
        IN  /\ parsed.result.k = "ok"
                  <=> (n.k = "ok" /\ n.v \in NoStage..(BitfieldDistribution + 1))
            /\ parsed.result.k = "ok" =>
                  (parsed.result.v = n.v /\ ParseInt(parsed.printed) = Ok(n.v))

\* C14 as the code has it: Stage parsing accepts exactly the integers 0
\* through 7, each giving the stage of that number, and fails on anything
\* else, 8 included; printing the parsed Stage gives the same integer back.
C14_StageParse0to7 ==
    parsed.state = "done" =>
        LET n == ParseInt(parsed.input)
        IN  /\ parsed.result.k = "ok"
                  <=> (n.k = "ok" /\ n.v \in NoStage..BitfieldDistribution)
            /\ parsed.result.k = "ok" =>
                  (parsed.result.v = n.v /\ ParseInt(parsed.printed) = Ok(n.v))

\* "+7" parsed to BitfieldDistribution and printed as "7"
C14_Witness ==
    /\ parsed.state = "done"
    /\ parsed.input = <<"+", "7">>
    /\ parsed.result = Ok(BitfieldDistribution)
    /\ parsed.printed = <<"7">>

\* C18: once the Ctrl-C handler has run, the daemon stops without
\* starting another cycle: from the interval wait, as from the loop test,
\* its next step is the return of start(), not the reset and fetch of a
\* new cycle.
C18_CancelStops ==
    [][ (~running /\ pc \in {"check", "wait"}) => pc' \in {pc, "returned_ok"} ]_vars

\* C19: the descendant walk runs only when the recurse_children switch is
\* on (the ancestor walk only when recurse_parents is on): with the switch
\* off a collected span visits no other span, and what it resolves to is
\* what its own tags give.
C19_SwitchesGateWalks ==
    (Collected /\ ~daemon.recurse_children) =>
        /\ resolved.visited = <<>>
        /\ resolved.kind = "candidate" =>
              /\ Carries(ResolvedSpan, HASH_IDENTIFIER)
              /\ Unwrap(resolved.candidate).hash = TagValueOf(ResolvedSpan, HASH_IDENTIFIER)
              /\ Unwrap(resolved.candidate).stage =
                    IF Carries(ResolvedSpan, STAGE_IDENTIFIER)
                    THEN TagValueOf(ResolvedSpan, STAGE_IDENTIFIER)
                    ELSE NoStage

\* C20: of every stage's histogram the first bucket bound is 250, the last
\* is at least 21000, and any two consecutive bounds differ by exactly 250.
C20_BucketSteps ==
    \A s \in DOMAIN parachain_stage_histograms :
        LET b == histogram_buckets(s)
        IN  /\ b[1] = 250
            /\ b[Len(b)] >= 21000
            /\ \A i \in 1..(Len(b) - 1) : b[i + 1] - b[i] = 250

\* C23: in every reachable state of Metrics.candidates, every candidate is
\* in the list keyed by its own stage, no key maps to an empty list, and
\* every key is an index of the gauge array and of the histogram array.
C23_StoreInvariant ==
    \A s \in DOMAIN candidates :
        /\ candidates[s] # <<>>
        /\ \A i \in 1..Len(candidates[s]) : candidates[s][i].stage = s
        /\ s \in 0..(NumGauges - 1)
        /\ s \in DOMAIN parachain_stage_gauges
        /\ s \in DOMAIN parachain_stage_histograms

\* in a second cycle, two stages hold candidates and one list holds two
C23_Witness ==
    /\ cycle >= 1
    /\ Cardinality(DOMAIN candidates) >= 2
    /\ \E s \in DOMAIN candidates : s # NoStage /\ Len(candidates[s]) = 2

\* the steps of start() in the order the loop takes them
CycleOrder ==
    {<<"check", "wait">>, <<"check", "returned_ok">>, <<"wait", "clear">>,
     <<"clear", "fetch">>, <<"fetch", "decode">>, <<"fetch", "returned_err">>,
     <<"decode", "collect">>, <<"decode", "flush">>, <<"decode", "returned_ok">>,
     <<"collect", "flush">>, <<"collect", "returned_ok">>, <<"collect", "panicked">>,
     <<"flush", "check">>}

\* the places <<stage, index>> of the candidate lists
Held == UNION {{<<s, i>> : i \in 1..Len(candidates[s])} : s \in DOMAIN candidates}

\* the spans <<trace, span_id>> of the traces of the cycle
CycleSpans == UNION {{<<t, id>> : id \in DOMAIN traces[t].spans} : t \in 1..Len(traces)}

\* the candidates span x may be collected as
CandidatesOf(x) ==
    {out.candidate : out \in {o \in collect_candidates(traces[x[1]], traces[x[1]].spans[x[2]]) :
                                  o.kind = "candidate"}}

\* span x is collected as a candidate whatever the iteration order
SurelyCandidate(x) ==
    \A o \in collect_candidates(traces[x[1]], traces[x[1]].spans[x[2]]) : o.kind = "candidate"

\* C22: the steps of a cycle run in the order reset, fetch, decode, ingest,
\* flush, and a cycle ends before the next starts; the lists are empty from
\* the reset until the decode, and at the flush they hold the candidates of
\* the spans of this cycle's traces and nothing else.
C22_CycleOrder ==
    /\ [][pc' # pc => <<pc, pc'>> \in CycleOrder]_vars
    /\ [][cycle' # cycle => (pc = "flush" /\ cycle' = cycle + 1)]_vars
    /\ [](pc \in {"fetch", "decode"} => candidates = EmptyMap)
    /\ [](pc = "flush" =>
            /\ \A h \in Held : \E x \in CycleSpans : Some(candidates[h[1]][h[2]]) \in CandidatesOf(x)
            /\ Cardinality({x \in CycleSpans : SurelyCandidate(x)}) <= Cardinality(Held)
            /\ Cardinality(Held) <= Cardinality({x \in CycleSpans : CandidatesOf(x) # {}}))

\* the flush of a second cycle, after a first that exported candidates,
\* with fewer candidates in the lists than the first cycle had
C22_Witness ==
    /\ pc = "flush"
    /\ cycle >= 1
    /\ candidates # EmptyMap
    /\ Cardinality(UNION {DistinctHashes(candidates[s]) : s \in DOMAIN candidates})
          < parachain_total_candidates

\* C21: the exported values (total gauge, per-stage gauges, per-stage
\* histograms) change only in update_metrics: Metrics::clear, the collection
\* of a span and a scrape, wherever it falls in the loop, leave them as
\* they are; a scrape encodes the exported values as they stand and changes
\* nothing of the daemon, the candidate lists included.
C21_ExportedFrame ==
    [][ /\ metrics' # metrics => (pc = "flush" /\ pc' = "check")
        /\ server' # server =>
              /\ UNCHANGED <<candidates, metrics, pc, running, json, traces, ti, done, cycle>>
              /\ server'.last_buffer_length =
                    buffer_len(encode([total |-> parachain_total_candidates,
                                       gauges |-> parachain_stage_gauges,
                                       histograms |-> parachain_stage_histograms])) ]_vars

\* a scrape has been answered and a second cycle, whose reset and ingest
\* left the values the first cycle exported in place, is about to flush
C21_Witness ==
    /\ server.last_buffer_length > 0
    /\ cycle >= 1
    /\ pc = "flush"
    /\ candidates # EmptyMap
    /\ parachain_total_candidates > 0
    /\ \E s \in Stage : parachain_stage_histograms[s] > 0 /\ s \notin DOMAIN candidates

====
